---- MODULE Spec2Model ----
(***************************************************************************)
(* A model of two primitives of vmemcache:                                 *)
(*   - the critnib index (src/src/critnib.c): a radix tree with a 4-bit    *)
(*     stride mapping byte-string keys to entry handles;                   *)
(*   - the fragment heap (vmemcache_heap.c, src/unnamed/part_000): a       *)
(*     LIFO free-list allocator over one mapped region.                    *)
(* Memory is explicit: leaves and internal nodes live at numbered          *)
(* addresses, and the sets allocLeaves/allocNodes record which addresses   *)
(* Malloc/Zalloc has handed out and Free has not yet taken back.           *)
(***************************************************************************)
EXTENDS Integers, Sequences, FiniteSets, Bags, TLC

(***************************************************************************)
(* Bounds of the model.                                                    *)
(***************************************************************************)
\* Number of leaf-sized blocks the allocator can hand out before Malloc
\* returns NULL.
LeafCap == 3
\* Number of node-sized blocks the allocator can hand out.
NodeCap == LeafCap - 1
\* Size in bytes of the region given to the heap.
HeapSize == 8
\* Largest size requested from the heap; requests are of at least one byte.
MaxReq == 5
\* Largest number of heap entries the callers hold at once.
MaxHeld == 4
\* Threads that call the heap concurrently, and the size of the heap they
\* share.
NThreads == 2
ThreadHeapSize == 5

(***************************************************************************)
(* Program constants.                                                      *)
(***************************************************************************)
SLICE == 4
NIB == 15
SLNODES == 16
ENOMEM == 12
EEXIST == 17
\* The arguments of vmcache_heap_create: the region's address and the
\* fragment size.
HeapBase == 4096
FragmentSize == 2

(***************************************************************************)
(* Inputs.  A cache entry holds its key as the 8-byte field ksize followed *)
(* by ksize key bytes; the index reads the key through `const char *` from *)
(* the address of that field, so the bytes of ksize (little-endian, as     *)
(* they lie in memory) are the first bytes of every key.  Bytes are        *)
(* unsigned values 0..255; ToChar models the read through char.  The key   *)
(* bytes chosen differ pairwise in the low nibble (0x11/0x12) and the high *)
(* nibble (0x11/0x21/0x31), the first bytes of ksize in the low nibble     *)
(* (1/2) and the top bit (1/249).  One entry has a ksize so large that     *)
(* key_len, a 32-bit value, wraps to 1: its key is the single byte 0xf9, a *)
(* proper prefix of the key of the entry with ksize 249.                   *)
(***************************************************************************)

\* sizeof(e->key.ksize)
SizeofKsize == 8

\* The bytes in memory of a ksize below 256.
SmallKsize(n) == <<n, 0, 0, 0, 0, 0, 0, 0>>

\* The bytes in memory of the ksize 2^64 - 7.
WrapKsize == <<249, 255, 255, 255, 255, 255, 255, 255>>

\* The cache entries passed to the index (struct cache_entry): the address
\* of an entry is the handle stored as the leaf's value, 0 being the NULL
\* handle returned for a miss; ksize and data are the fields e->key.ksize
\* and e->key.key.  Entries 1 and 2 hold the same key.
Entries ==
    { [handle |-> 1, ksize |-> SmallKsize(1), data |-> <<17>>],
      [handle |-> 2, ksize |-> SmallKsize(1), data |-> <<17>>],
      [handle |-> 3, ksize |-> SmallKsize(1), data |-> <<18>>],
      [handle |-> 4, ksize |-> SmallKsize(1), data |-> <<33>>],
      [handle |-> 5, ksize |-> SmallKsize(1), data |-> <<49>>],
      [handle |-> 6, ksize |-> SmallKsize(2), data |-> <<17, 17>>],
      [handle |-> 7, ksize |-> WrapKsize, data |-> <<>>],
      [handle |-> 8, ksize |-> SmallKsize(249), data |-> [i \in 1..249 |-> 17]] }

\* Line 188: key_len = (byten_t)(e->key.ksize + sizeof(e->key.ksize)), the
\* low 32 bits of the sum, computed on the low 24 bits and the fourth byte.
EntryKeyLen(e) ==
    LET low == e.ksize[1] + 256 * e.ksize[2] + 65536 * e.ksize[3] + SizeofKsize
        top == (e.ksize[4] + (low \div 16777216)) % 256
    IN  (low % 16777216) + 16777216 * top

\* Line 187: key = (void *)&e->key, of which the index reads key_len bytes.
EntryKey(e) == SubSeq(e.ksize \o e.data, 1, EntryKeyLen(e))

\* The entry at an address.
EntryAt(h) == CHOOSE e \in Entries : e.handle = h

\* The addresses of the entries.
Handles == {e.handle : e \in Entries}

\* The memory a key pointer points to: KeyBytes[h] are the bytes read
\* through the pointer &e->key of the entry at address h.
KeyBytes == [h \in Handles |-> EntryKey(EntryAt(h))]

Keys == {KeyBytes[h] : h \in Handles}

\* The first entry that holds the key k; shadow is indexed by it.
KeyId == [k \in Keys |-> CHOOSE h \in Handles :
                            KeyBytes[h] = k /\ \A g \in Handles : KeyBytes[g] = k => h <= g]
KeyIds == {KeyId[k] : k \in Keys}

LeafIds == 1..LeafCap
NodeIds == 1..NodeCap

(***************************************************************************)
(* Tagged child pointers.  Block i of either memory lies at address 2 * i; *)
(* the low bit of a pointer marks a leaf.                                  *)
(***************************************************************************)
NULL == 0
\* k = (void *)((uint64_t)k | 1)
LeafPtr(i) == 2 * i + 1
NodePtr(i) == 2 * i
\* to_leaf: the untagged address of a leaf, as its block number.
to_leaf(n) == (n - 1) \div 2
\* The block number of an internal node.
NodeOf(n) == n \div 2
Ptrs == {NULL} \cup {LeafPtr(i) : i \in LeafIds} \cup {NodePtr(i) : i \in NodeIds}

\* is_leaf: (uint64_t)n & 1
is_leaf(n) == n % 2 = 1

\* struct critnib_node after Zalloc: all children NULL, byte and bit zero.
ZeroNode == [child |-> [i \in 0..(SLNODES - 1) |-> NULL], byte |-> 0, bit |-> 0]
\* struct critnib_leaf whose fields hold nothing.  The field key is a
\* pointer to the key of an entry, modelled as the address of the entry.
ZeroLeaf == [key |-> NULL, key_len |-> 0, value |-> 0]

VARIABLES
    root,         \* c->root
    nodes,        \* memory of internal nodes, by address
    leafs,        \* memory of leaves, by address
    allocNodes,   \* node addresses currently allocated
    allocLeaves,  \* leaf addresses currently allocated
    status,       \* "live", "deleted" (critnib_delete ran) or "aborted"
    lastOp,       \* the last call of the index: operation and return value
    shadow,       \* reference map: KeyId of a key -> handle of the last successful set
    heap,         \* the fragment heap
    held,         \* bag of heap entries returned by alloc and not yet freed
    lastAlloc,    \* the last heap call, and the call before it
    lost,         \* bytes of the entries a failed push dropped
    pc,           \* per thread: the statement of vmcache_alloc/free it is at
    loc,          \* per thread: the locals size and he of its heap call
    lock,         \* heap->lock: 0 when free, the thread that holds it, or destroyed
    mine          \* per thread: bag of the entries alloc returned to it

critVars == <<root, nodes, leafs, allocNodes, allocLeaves, status, lastOp, shadow>>
heapVars == <<heap, held, lastAlloc, lost>>
threadVars == <<pc, loc, lock, mine>>
vars == <<root, nodes, leafs, allocNodes, allocLeaves, status, lastOp, shadow,
          heap, held, lastAlloc, lost, pc, loc, lock, mine>>

(***************************************************************************)
(* Bit arithmetic on machine integers.                                     *)
(***************************************************************************)
RECURSIVE BitXor(_, _, _)
\* a ^ b on the low w bits of two non-negative integers.
BitXor(a, b, w) ==
    IF w = 0 THEN 0
    ELSE (((a % 2) + (b % 2)) % 2) + 2 * BitXor(a \div 2, b \div 2, w - 1)

RECURSIVE BitAnd(_, _, _)
\* a & b on the low w bits of two non-negative integers.
BitAnd(a, b, w) ==
    IF w = 0 THEN 0
    ELSE ((a % 2) * (b % 2)) + 2 * BitAnd(a \div 2, b \div 2, w - 1)

\* The value of a byte of memory read through `char` (signed, two's
\* complement): 0x80..0xff are negative.
ToChar(b) == IF b >= 128 THEN b - 256 ELSE b

\* util_mssb_index((uint32_t)at) for a non-zero char at: the index of the
\* most significant set bit of the 32-bit value.  The conversion of a
\* negative char to uint32_t sign-extends it, so bit 31 is set.
util_mssb_index(at) ==
    IF at < 0 THEN 31
    ELSE CHOOSE i \in 0..7 : 2^i <= at /\ at < 2^(i + 1)

\* A faulty slice_index that forgets the shift.
slice_index_NoShift(b, bit) == ToChar(b) % (NIB + 1)

\* slice_index(char b, bitn_t bit): (b >> bit) & NIB.  b is promoted to int,
\* the shift of a negative value is arithmetic, and the mask keeps the low
\* four bits of the two's complement result.
slice_index(b, bit) == (ToChar(b) \div (2^bit)) % (NIB + 1)

\* Lines 242-243 of critnib_set: the shift of the nibble in which the bytes
\* a and b (a # b) first differ.
\*   char at = a ^ b;  sh = util_mssb_index((uint32_t)at) & (bitn_t)~(SLICE - 1)
DivergenceShift(a, b) ==
    LET at == ToChar(BitXor(a, b, 8))
        mask == 255 - (SLICE - 1)
    IN  BitAnd(util_mssb_index(at), mask, 8)

(***************************************************************************)
(* Tree walks.  nd is the node memory, lf the leaf memory.                 *)
(***************************************************************************)
\* The non-empty child slots of a node.
UsedSlots(nd, id) == {i \in 0..(SLNODES - 1) : nd[id].child[i] # NULL}

RECURSIVE any_leaf(_, _)
\* any_leaf: the leaf under the first non-empty child, NULL if the node has
\* no child.
any_leaf(nd, n) ==
    LET used == UsedSlots(nd, NodeOf(n))
    IN  IF used = {} THEN NULL
        ELSE LET i == CHOOSE j \in used : \A k \in used : j <= k
                 m == nd[NodeOf(n)].child[i]
             IN  IF is_leaf(m) THEN m ELSE any_leaf(nd, m)

RECURSIVE FirstDescent(_, _, _)
\* Lines 205-214 of critnib_set: walk down by the key's nibbles while the
\* node's byte lies inside the key; on an empty slot take any leaf below.
FirstDescent(nd, n, key) ==
    IF ~is_leaf(n) /\ nd[NodeOf(n)].byte < Len(key)
    THEN LET nn == nd[NodeOf(n)].child[slice_index(key[nd[NodeOf(n)].byte + 1], nd[NodeOf(n)].bit)]
         IN  IF nn # NULL THEN FirstDescent(nd, nn, key) ELSE any_leaf(nd, n)
    ELSE n

\* Lines 205-218: the witness leaf of a set of key in a non-empty tree.
WitnessLeaf(rt, nd, key) ==
    LET n == FirstDescent(nd, rt, key)
    IN  IF n # NULL /\ ~is_leaf(n) THEN any_leaf(nd, n) ELSE n

\* A faulty scan for the divergence that starts at byte 1.
FirstDiff_SkipFirst(a, b) ==
    LET common_len == IF Len(a) < Len(b) THEN Len(a) ELSE Len(b)
        D == {d \in 1..(common_len - 1) : a[d + 1] # b[d + 1]}
    IN  IF D = {} THEN common_len ELSE CHOOSE d \in D : \A e \in D : d <= e

\* Lines 225-231: the first byte index at which two keys differ, or
\* common_len when they agree on their common length.
FirstDiff(a, b) ==
    LET common_len == IF Len(a) < Len(b) THEN Len(a) ELSE Len(b)
        D == {d \in 0..(common_len - 1) : a[d + 1] # b[d + 1]}
    IN  IF D = {} THEN common_len ELSE CHOOSE d \in D : \A e \in D : d <= e

\* A child slot reference (struct critnib_node **): node 0 is &c->root.
RootSlot == [node |-> 0, idx |-> 0]
Slot(id, i) == [node |-> id, idx |-> i]
ReadSlot(rt, nd, s) == IF s.node = 0 THEN rt ELSE nd[s.node].child[s.idx]

\* A faulty redescent condition that looks at the byte only.
KeepDescending_ByteOnly(nbyte, nbit, diff, sh) == nbyte < diff

\* A faulty redescent condition: strict comparison of the shifts.
KeepDescending_Strict(nbyte, nbit, diff, sh) ==
    nbyte < diff \/ (nbyte = diff /\ nbit > sh)

\* Line 249: the condition under which the second descent moves below a node.
KeepDescending(nbyte, nbit, diff, sh) ==
    nbyte < diff \/ (nbyte = diff /\ nbit >= sh)

RECURSIVE SecondDescent(_, _, _, _, _, _)
\* Lines 246-252: returns the node stopped on and the slot that holds it.
SecondDescent(nd, n, parent, key, diff, sh) ==
    IF n # NULL /\ ~is_leaf(n)
       /\ KeepDescending(nd[NodeOf(n)].byte, nd[NodeOf(n)].bit, diff, sh)
    THEN LET p == Slot(NodeOf(n), slice_index(key[nd[NodeOf(n)].byte + 1], nd[NodeOf(n)].bit))
         IN  SecondDescent(nd, nd[NodeOf(n)].child[p.idx], p, key, diff, sh)
    ELSE [n |-> n, parent |-> parent]

RECURSIVE GetDescent(_, _, _)
\* Lines 288-292 of critnib_get: the child reached by the key's nibbles;
\* NULL when a node's byte lies beyond the key.
GetDescent(nd, n, key) ==
    IF n # NULL /\ ~is_leaf(n)
    THEN IF nd[NodeOf(n)].byte >= Len(key) THEN NULL
         ELSE GetDescent(nd,
                  nd[NodeOf(n)].child[slice_index(key[nd[NodeOf(n)].byte + 1], nd[NodeOf(n)].bit)],
                  key)
    ELSE n

\* critnib_get: the handle stored under key, 0 (NULL) for a miss.
critnib_get(rt, nd, lf, key) ==
    LET n == GetDescent(nd, rt, key)
    IN  IF n = NULL THEN 0
        ELSE IF Len(key) # lf[to_leaf(n)].key_len
                \/ key # KeyBytes[lf[to_leaf(n)].key] THEN 0
        ELSE lf[to_leaf(n)].value

(***************************************************************************)
(* The index as a value: the root slot, the two memories and the sets of   *)
(* allocated addresses.                                                    *)
(***************************************************************************)
Tree(rt, nd, lf, aN, aL) ==
    [root |-> rt, nodes |-> nd, leafs |-> lf, allocNodes |-> aN, allocLeaves |-> aL]

\* The outcome of a call that returns ret.
Return(t, ret) == [tree |-> t, ret |-> ret, returned |-> TRUE]
\* The outcome of a call in which the process is aborted.
Abort(t) == [tree |-> t, ret |-> 0, returned |-> FALSE]

\* Malloc/Zalloc: the lowest free address, 0 (NULL) when the allocation
\* fails (ok = FALSE) or no block is left.
Malloc(allocated, ids, ok) ==
    LET free == ids \ allocated
    IN  IF ok /\ free # {} THEN CHOOSE i \in free : \A j \in free : i <= j ELSE 0

alloc_leaf(t, ok) == Malloc(t.allocLeaves, LeafIds, ok)
alloc_node(t, ok) == Malloc(t.allocNodes, NodeIds, ok)

\* Free of a leaf through its untagged address (Free(to_leaf(n)), Free(k)
\* in critnib_remove).
FreeLeaf(t, id) ==
    [t EXCEPT !.allocLeaves = @ \ {id}, !.leafs[id] = ZeroLeaf]

\* Free(n) of an internal node.
FreeNode(t, id) ==
    [t EXCEPT !.allocNodes = @ \ {id}, !.nodes[id] = ZeroNode]

\* *s = p
WriteSlot(t, s, p) ==
    IF s.node = 0 THEN [t EXCEPT !.root = p]
    ELSE [t EXCEPT !.nodes[s.node].child[s.idx] = p]

\* A block that stays allocated with no pointer to it left: nothing reads
\* its contents again, which the model stops tracking.
Orphan(t, kid) == [t EXCEPT !.leafs[kid] = ZeroLeaf]

\* The outcomes of Free on an address that Malloc never returned.
FreeOutcomes == {"released", "ignored", "abort"}

\* Lines 265-268 of critnib_set: alloc_node failed.  Free(k) is called with
\* the tagged pointer (k | 1, line 192), an address Malloc never returned:
\* undefined behaviour.  The allocator may round the address down and
\* release the block, may leave the block allocated, or may abort.
SetNoMem(t, kid, ub) ==
    CASE ub = "released" -> Return(FreeLeaf(t, kid), ENOMEM)
      [] ub = "ignored"  -> Return(Orphan(t, kid), ENOMEM)
      [] ub = "abort"    -> Abort(Orphan(t, kid))

\* Lines 233-239 of critnib_set: the witness agrees with the key on their
\* common length.  Returns with the new leaf still allocated.
SetExists(t, kid) == Return(Orphan(t, kid), EEXIST)

\* Lines 264-275 of critnib_set: a new internal node between the slot and
\* the subtree n it held.
SetSplice(t, nid, parent, n, k, wbyte, kbyte, diff, sh) ==
    LET node == [child |-> [i \in 0..(SLNODES - 1) |->
                               IF i = slice_index(kbyte, sh) THEN k
                               ELSE IF i = slice_index(wbyte, sh) THEN n
                               ELSE NULL],
                 byte  |-> diff,
                 bit   |-> sh]
        t2 == [t EXCEPT !.allocNodes = @ \cup {nid}, !.nodes[nid] = node]
    IN  Return(WriteSlot(t2, parent, NodePtr(nid)), 0)

\* critnib_set(c, e); mem gives the fate of the allocations of the call.
critnib_set(t, e, mem) ==
    LET key == KeyBytes[e.handle]
        v == e.handle
        kid == alloc_leaf(t, mem.leafOk)
    IN  IF kid = 0 THEN Return(t, ENOMEM)
        ELSE
        LET t1 == [t EXCEPT !.allocLeaves = @ \cup {kid},
                            !.leafs[kid] = [key |-> e.handle, key_len |-> Len(key),
                                            value |-> v]]
            k == LeafPtr(kid)
        IN  IF t1.root = NULL THEN Return([t1 EXCEPT !.root = k], 0)
            ELSE
            LET n == WitnessLeaf(t1.root, t1.nodes, key)
                nk == t1.leafs[to_leaf(n)]
                nkey == KeyBytes[nk.key]
                common_len == IF nk.key_len < Len(key) THEN nk.key_len ELSE Len(key)
                diff == FirstDiff(nkey, key)
            IN  IF diff >= common_len THEN SetExists(t1, kid)
                ELSE
                LET sh == DivergenceShift(nkey[diff + 1], key[diff + 1])
                    d == SecondDescent(t1.nodes, t1.root, RootSlot, key, diff, sh)
                IN  IF d.n = NULL THEN Return(WriteSlot(t1, d.parent, k), 0)
                    ELSE
                    LET nid == alloc_node(t1, mem.nodeOk)
                    IN  IF nid = 0 THEN SetNoMem(t1, kid, mem.ub)
                        ELSE SetSplice(t1, nid, d.parent, d.n, k,
                                       nkey[diff + 1], key[diff + 1], diff, sh)

\* No slot: pp before the descent of critnib_remove passes a node.
NoSlot == [node |-> -1, idx |-> 0]

RECURSIVE RemoveDescent(_, _, _, _, _)
\* Lines 323-329 of critnib_remove: the get, remembering the slot of the
\* node reached (parent) and of its parent node (pp).
RemoveDescent(nd, n, pp, parent, key) ==
    IF n # NULL /\ ~is_leaf(n)
    THEN IF nd[NodeOf(n)].byte >= Len(key)
         THEN [n |-> NULL, pp |-> pp, parent |-> parent]
         ELSE LET p == Slot(NodeOf(n), slice_index(key[nd[NodeOf(n)].byte + 1], nd[NodeOf(n)].bit))
              IN  RemoveDescent(nd, nd[NodeOf(n)].child[p.idx], parent, p, key)
    ELSE [n |-> n, pp |-> pp, parent |-> parent]

\* A faulty elision that leaves a node with a single child in place.
RemoveElide_Never(t, pp, value) == Return(t, value)

\* A faulty elision that empties the slot of the node instead of promoting
\* the surviving child.
RemoveElide_DropChild(t, pp, value) ==
    LET n == ReadSlot(t.root, t.nodes, pp)
    IN  IF Cardinality(UsedSlots(t.nodes, NodeOf(n))) >= 2 THEN Return(t, value)
        ELSE Return(FreeNode(WriteSlot(t, pp, NULL), NodeOf(n)), value)

\* Lines 347-362 of critnib_remove: after the leaf is gone, a node left with
\* a single child is replaced by that child and freed.
RemoveElide(t, pp, value) ==
    LET n == ReadSlot(t.root, t.nodes, pp)
        used == UsedSlots(t.nodes, NodeOf(n))
    IN  IF Cardinality(used) >= 2 THEN Return(t, value)
        ELSE LET only_child == IF used = {} THEN NULL
                               ELSE t.nodes[NodeOf(n)].child[CHOOSE i \in used : TRUE]
             IN  Return(FreeNode(WriteSlot(t, pp, only_child), NodeOf(n)), value)

\* critnib_remove(c, e) with e's key: returns the handle, 0 (NULL) for a miss.
critnib_remove(t, key) ==
    LET d == RemoveDescent(t.nodes, t.root, NoSlot, RootSlot, key)
    IN  IF d.n = NULL THEN Return(t, 0)
        ELSE
        LET k == t.leafs[to_leaf(d.n)]
        IN  IF Len(key) # k.key_len \/ key # KeyBytes[k.key] THEN Return(t, 0)
            ELSE
            LET t1 == FreeLeaf(WriteSlot(t, d.parent, NULL), to_leaf(d.n))
            IN  IF d.pp = NoSlot THEN Return(t1, k.value)
                ELSE RemoveElide(t1, d.pp, k.value)

RECURSIVE ReachNodes(_, _)
\* The internal nodes of the subtree at n.
ReachNodes(nd, n) ==
    IF n = NULL \/ is_leaf(n) THEN {}
    ELSE {NodeOf(n)} \cup UNION {ReachNodes(nd, nd[NodeOf(n)].child[i]) : i \in 0..(SLNODES - 1)}

RECURSIVE ReachLeaves(_, _)
\* The leaves of the subtree at n.
ReachLeaves(nd, n) ==
    IF n = NULL THEN {}
    ELSE IF is_leaf(n) THEN {to_leaf(n)}
    ELSE UNION {ReachLeaves(nd, nd[NodeOf(n)].child[i]) : i \in 0..(SLNODES - 1)}

\* delete_node(n): frees the leaves of the subtree; the loop over the
\* children of an internal node is not followed by a Free of the node.
delete_node(t, n) ==
    [t EXCEPT !.allocLeaves = @ \ ReachLeaves(t.nodes, n),
              !.leafs = [i \in LeafIds |->
                            IF i \in ReachLeaves(t.nodes, n) THEN ZeroLeaf ELSE @[i]]]

\* critnib_delete(c): delete_node(c->root); Free(c).
critnib_delete(t) == delete_node(t, t.root)

(***************************************************************************)
(* The fragment heap.                                                      *)
(***************************************************************************)
\* The empty entry {NULL, 0}.
EmptyEntry == [ptr |-> 0, size |-> 0]

\* ALIGN_UP(size, align) == ((size) + (align) - 1) & ~((align) - 1) on
\* size_t.  Clearing the bits of align - 1 in x is x - (x & (align - 1)),
\* whatever the width of the word; the mask align - 1 is read on 31 bits,
\* which hold every sum size + align - 1 below 2^31.
ALIGN_UP(size, align) ==
    LET x == size + align - 1
    IN  x - BitAnd(x, align - 1, 31)

\* VEC_PUSH_BACK(&heap->entries, e).  The array of the free stack holds
\* capacity slots.  A push onto a full array first grows the array, which
\* allocates memory: grow tells whether that allocation succeeds.  When it
\* fails nothing is stored (the push returns -1, a result lines 71, 110 and
\* 135 do not look at).  The array never shrinks when an entry is popped.
\* By how much the array grows is not in the source: growing by one slot
\* makes every push onto a stack at its high-water mark a growth, which
\* covers the pushes that grow under any other policy.
VEC_PUSH_BACK(h, e, grow) ==
    IF Len(h.entries) < h.capacity
    THEN [h EXCEPT !.entries = Append(@, e)]
    ELSE IF grow
    THEN [h EXCEPT !.entries = Append(@, e), !.capacity = @ + 1]
    ELSE h

\* vmcache_heap_create(addr, size, fragment_size): Zalloc, VEC_INIT (an
\* array of no slots) and the push of the whole heap, for which create
\* reserves no slot.  The field freed tells whether the struct has been
\* given back by Free.
vmcache_heap_create(addr, size, fragment_size, grow) ==
    VEC_PUSH_BACK([fragment_size |-> fragment_size,
                   entries       |-> <<>>,
                   capacity      |-> 0,
                   size_used     |-> 0,
                   freed         |-> FALSE],
                  [ptr |-> addr, size |-> size], grow)

\* The value of heap->lock after util_mutex_destroy.
MutexDestroyed == -1

\* util_mutex_destroy(&heap->lock)
util_mutex_destroy(lk) == MutexDestroyed

\* vmcache_heap_destroy(heap): VEC_DELETE(&heap->entries) releases the
\* array of the free stack, then the struct is freed.  The memory of the
\* pool, which the caller mapped, is not touched.
vmcache_heap_destroy(h) ==
    [h EXCEPT !.entries = <<>>, !.capacity = 0, !.freed = TRUE]

\* A faulty alloc that hands out the whole popped entry without splitting.
vmcache_alloc_NoSplit(h, size, grow) ==
    IF h.entries = <<>> THEN [heap |-> h, he |-> EmptyEntry]
    ELSE LET he == h.entries[Len(h.entries)]
         IN  [heap |-> [h EXCEPT !.entries = SubSeq(@, 1, Len(@) - 1),
                                 !.size_used = @ + he.size],
              he   |-> he]

\* A faulty alloc that adds the rounded request, not the size handed out,
\* to size_used.
vmcache_alloc_CountRequest(h, size, grow) ==
    LET sz == ALIGN_UP(size, h.fragment_size)
    IN  IF h.entries = <<>> THEN [heap |-> h, he |-> EmptyEntry]
        ELSE LET he == h.entries[Len(h.entries)]
                 rest == SubSeq(h.entries, 1, Len(h.entries) - 1)
             IN  IF he.size > sz
                 THEN [heap |-> [h EXCEPT
                                   !.entries = Append(rest, [ptr  |-> he.ptr + sz,
                                                             size |-> he.size - sz]),
                                   !.size_used = @ + sz],
                       he   |-> [ptr |-> he.ptr, size |-> sz]]
                 ELSE [heap |-> [h EXCEPT !.entries = rest, !.size_used = @ + sz],
                       he   |-> he]

\* vmcache_alloc(heap, size): the heap after the call and the entry returned.
\* grow is the fate of the growth of the array, should the push of the tail
\* need one.
vmcache_alloc(h, size, grow) ==
    LET sz == ALIGN_UP(size, h.fragment_size)
    IN  IF h.entries = <<>> THEN [heap |-> h, he |-> EmptyEntry]
        ELSE LET he == h.entries[Len(h.entries)]
                 popped == [h EXCEPT !.entries = SubSeq(@, 1, Len(@) - 1)]
             IN  IF he.size > sz
                 THEN [heap |-> [VEC_PUSH_BACK(popped,
                                               [ptr  |-> he.ptr + sz,
                                                size |-> he.size - sz], grow)
                                   EXCEPT !.size_used = @ + sz],
                       he   |-> [ptr |-> he.ptr, size |-> sz]]
                 ELSE [heap |-> [popped EXCEPT !.size_used = @ + he.size],
                       he   |-> he]

\* vmcache_free(heap, he): the subtraction, then the push, whose result is
\* not looked at: when the array cannot grow the entry is on no stack and
\* with no caller.
vmcache_free(h, he, grow) ==
    VEC_PUSH_BACK([h EXCEPT !.size_used = @ - he.size], he, grow)

\* vmcache_get_heap_used_size(heap)
vmcache_get_heap_used_size(h) == h.size_used

(***************************************************************************)
(* The statements of vmcache_alloc and vmcache_free, as threads run them.  *)
(***************************************************************************)
Threads == 1..NThreads

\* The locals of a thread that is in no heap call.
NoLocals == [size |-> 0, he |-> EmptyEntry]

\* util_mutex_lock(&heap->lock) returns once no thread holds the lock.
util_mutex_lock(lk) == lk = 0

\* VEC_POP_BACK(&heap->entries, &he): fails on the empty vector, else
\* removes the last entry and stores it in he.
VEC_POP_BACK(h) ==
    IF h.entries = <<>>
    THEN [ok |-> FALSE, heap |-> h, he |-> EmptyEntry]
    ELSE [ok   |-> TRUE,
          heap |-> [h EXCEPT !.entries = SubSeq(@, 1, Len(@) - 1)],
          he   |-> h.entries[Len(h.entries)]]

\* A faulty split whose remainder starts where the popped entry starts.
SplitEntry_TailAtStart(h, he, size, grow) ==
    IF he.size > size
    THEN [heap |-> VEC_PUSH_BACK(h, [ptr |-> he.ptr, size |-> he.size - size],
                                 grow),
          he   |-> [ptr |-> he.ptr, size |-> size]]
    ELSE [heap |-> h, he |-> he]

\* if (he.size > size) { f = {he.ptr + size, he.size - size}; push f;
\* he.size = size; }
SplitEntry(h, he, size, grow) ==
    IF he.size > size
    THEN [heap |-> VEC_PUSH_BACK(h, [ptr  |-> he.ptr + size,
                                     size |-> he.size - size], grow),
          he   |-> [ptr |-> he.ptr, size |-> size]]
    ELSE [heap |-> h, he |-> he]

\* A faulty accounting step that adds the size twice.
fetch_and_add_Twice(v, d) == v + d + d

\* __sync_fetch_and_add(&heap->size_used, d): the value stored.
fetch_and_add(v, d) == v + d

\* __sync_fetch_and_sub(&heap->size_used, d): the value stored.
fetch_and_sub(v, d) == v - d

\* A faulty error path that returns without the unlock.
error_no_mem_Return == "idle"

\* error_no_mem: the label the failed pop jumps to, the unlock.
error_no_mem == "a_unlock"

\* The statements between util_mutex_lock and util_mutex_unlock.
CriticalSection == {"a_pop", "a_split", "a_add", "a_unlock",
                    "f_sub", "f_push", "f_unlock"}

(***************************************************************************)
(* The state machine.                                                      *)
(***************************************************************************)
CurTree == Tree(root, nodes, leafs, allocNodes, allocLeaves)

\* The index after critnib_new, no heap call made and every thread idle.
InitIndex ==
    /\ root = NULL
    /\ nodes = [i \in NodeIds |-> ZeroNode]
    /\ leafs = [i \in LeafIds |-> ZeroLeaf]
    /\ allocNodes = {}
    /\ allocLeaves = {}
    /\ status = "live"
    /\ lastOp = [op |-> "new", ret |-> 0]
    /\ shadow = [k \in KeyIds |-> 0]
    /\ held = EmptyBag
    /\ lost = 0
    /\ lastAlloc = [op |-> "create", req |-> 0, he |-> EmptyEntry,
                    prev |-> [op |-> "none", he |-> EmptyEntry]]
    /\ pc = [t \in Threads |-> "idle"]
    /\ loc = [t \in Threads |-> NoLocals]
    /\ lock = 0
    /\ mine = [t \in Threads |-> EmptyBag]

\* The index makes no heap call; the heap beside it is a seeded one.
Init ==
    /\ InitIndex
    /\ heap = vmcache_heap_create(HeapBase, HeapSize, FragmentSize, TRUE)

\* A freshly created heap: the push of the whole heap in create grows the
\* array, and stores the entry only when that succeeds.
HeapInit ==
    /\ InitIndex
    /\ \E grow \in BOOLEAN :
           heap = vmcache_heap_create(HeapBase, HeapSize, FragmentSize, grow)

\* The state after a call of the index with outcome r.
Apply(r, op) ==
    /\ root' = r.tree.root
    /\ nodes' = r.tree.nodes
    /\ leafs' = r.tree.leafs
    /\ allocNodes' = r.tree.allocNodes
    /\ allocLeaves' = r.tree.allocLeaves
    /\ status' = IF r.returned THEN status ELSE "aborted"
    /\ lastOp' = [op |-> op, ret |-> r.ret]

Set(e, mem) ==
    /\ status = "live"
    /\ \E r \in {critnib_set(CurTree, e, mem)} :
           /\ Apply(r, "set")
           /\ shadow' = IF r.returned /\ r.ret = 0
                        THEN [shadow EXCEPT ![KeyId[KeyBytes[e.handle]]] = e.handle] ELSE shadow
    /\ UNCHANGED <<heapVars, threadVars>>

Remove(key) ==
    /\ status = "live"
    /\ \E r \in {critnib_remove(CurTree, key)} :
           /\ Apply(r, "remove")
           /\ shadow' = IF r.ret # 0 THEN [shadow EXCEPT ![KeyId[key]] = 0] ELSE shadow
    /\ UNCHANGED <<heapVars, threadVars>>

Delete ==
    /\ status = "live"
    /\ \E t \in {critnib_delete(CurTree)} :
           /\ root' = t.root
           /\ nodes' = t.nodes
           /\ leafs' = t.leafs
           /\ allocNodes' = t.allocNodes
           /\ allocLeaves' = t.allocLeaves
    /\ status' = "deleted"
    /\ lastOp' = [op |-> "delete", ret |-> 0]
    /\ UNCHANGED shadow
    /\ UNCHANGED <<heapVars, threadVars>>

\* The fates of the allocations of one call of critnib_set: whether
\* alloc_leaf and alloc_node succeed while memory is left, and what Free does
\* with an address Malloc never returned.  After a failed alloc_leaf nothing
\* else is allocated or freed; Free is reached only after a failed
\* alloc_node, and node memory never runs out before leaf memory does
\* (NodeMemorySuffices).
MemFates ==
    {[leafOk |-> FALSE, nodeOk |-> TRUE, ub |-> "abort"],
     [leafOk |-> TRUE, nodeOk |-> TRUE, ub |-> "abort"]}
    \cup [leafOk : {TRUE}, nodeOk : {FALSE}, ub : FreeOutcomes]

Next ==
    \/ \E e \in Entries, mem \in MemFates : Set(e, mem)
    \/ \E key \in Keys : Remove(key)
    \/ Delete

Spec == Init /\ [][Next]_vars

\* While a leaf block is free, a node block is free: alloc_node fails only
\* when its fate says so.
NodeMemorySuffices ==
    status = "live" /\ allocLeaves # LeafIds => allocNodes # NodeIds

\* The heap exists: vmcache_heap_destroy has not been called on it.
HeapAlive == ~heap.freed

\* vmcache_alloc(heap, req) as one step.  The tail of a split that the
\* push did not store is dropped.
Alloc(req, grow) ==
    /\ HeapAlive
    /\ BagCardinality(held) < MaxHeld
    /\ \E r \in {vmcache_alloc(heap, req, grow)} :
           /\ heap' = r.heap
           /\ held' = IF r.he.ptr = 0 THEN held ELSE held (+) SetToBag({r.he})
           /\ lost' = IF Len(r.heap.entries) < Len(heap.entries)
                      THEN lost + (heap.entries[Len(heap.entries)].size - r.he.size)
                      ELSE lost
           /\ lastAlloc' = [op |-> "alloc", req |-> req, he |-> r.he,
                            prev |-> [op |-> lastAlloc.op, he |-> lastAlloc.he]]
    /\ UNCHANGED <<critVars, threadVars>>

\* vmcache_free(heap, he) as one step, for an entry alloc returned.
Free(he, grow) ==
    /\ HeapAlive
    /\ BagIn(he, held)
    /\ heap' = vmcache_free(heap, he, grow)
    /\ held' = held (-) SetToBag({he})
    /\ lost' = IF Len(heap'.entries) = Len(heap.entries) THEN lost + he.size
               ELSE lost
    /\ lastAlloc' = [op |-> "free", req |-> 0, he |-> he,
                     prev |-> [op |-> lastAlloc.op, he |-> lastAlloc.he]]
    /\ UNCHANGED <<critVars, threadVars>>

\* vmcache_heap_destroy(heap), called once, when no call on the heap is in
\* progress; no call on the heap follows it.  Entries still held by callers
\* stay with them.
Destroy ==
    /\ HeapAlive
    /\ \A t \in Threads : pc[t] = "idle"
    /\ heap' = vmcache_heap_destroy(heap)
    /\ lock' = util_mutex_destroy(lock)
    /\ lastAlloc' = [op |-> "destroy", req |-> 0, he |-> EmptyEntry,
                     prev |-> [op |-> lastAlloc.op, he |-> lastAlloc.he]]
    /\ UNCHANGED <<critVars, held, lost, pc, loc, mine>>

HeapNext ==
    \/ \E req \in 1..MaxReq, grow \in BOOLEAN : Alloc(req, grow)
    \/ \E he \in BagToSet(held), grow \in BOOLEAN : Free(he, grow)
    \/ Destroy

HeapSpec == HeapInit /\ [][HeapNext]_vars

\* The threads.  Each action is one statement of vmcache_alloc or
\* vmcache_free run by thread t.
Threaded(t, label, l) ==
    /\ pc' = [pc EXCEPT ![t] = label]
    /\ loc' = [loc EXCEPT ![t] = l]
    /\ UNCHANGED <<critVars, lastAlloc>>

\* vmcache_alloc is called: he = {NULL, 0}; size = ALIGN_UP(size, fragment).
AllocCall(t, req) ==
    /\ HeapAlive
    /\ pc[t] = "idle"
    /\ Threaded(t, "a_lock", [size |-> ALIGN_UP(req, heap.fragment_size),
                              he   |-> EmptyEntry])
    /\ UNCHANGED <<heap, held, lost, lock, mine>>

AllocLock(t) ==
    /\ pc[t] = "a_lock"
    /\ util_mutex_lock(lock)
    /\ lock' = t
    /\ Threaded(t, "a_pop", loc[t])
    /\ UNCHANGED <<heap, held, lost, mine>>

AllocPop(t) ==
    /\ pc[t] = "a_pop"
    /\ \E r \in {VEC_POP_BACK(heap)} :
           /\ heap' = r.heap
           /\ IF r.ok
              THEN Threaded(t, "a_split", [loc[t] EXCEPT !.he = r.he])
              ELSE Threaded(t, error_no_mem, loc[t])
    /\ UNCHANGED <<held, lost, lock, mine>>

\* The split; a tail the push did not store is dropped.
AllocSplit(t, grow) ==
    /\ pc[t] = "a_split"
    /\ \E r \in {SplitEntry(heap, loc[t].he, loc[t].size, grow)} :
           /\ heap' = r.heap
           /\ lost' = IF r.he.size < loc[t].he.size
                         /\ Len(r.heap.entries) = Len(heap.entries)
                      THEN lost + (loc[t].he.size - r.he.size)
                      ELSE lost
           /\ Threaded(t, "a_add", [loc[t] EXCEPT !.he = r.he])
    /\ UNCHANGED <<held, lock, mine>>

AllocAdd(t) ==
    /\ pc[t] = "a_add"
    /\ heap' = [heap EXCEPT !.size_used = fetch_and_add(@, loc[t].he.size)]
    /\ Threaded(t, "a_unlock", loc[t])
    /\ UNCHANGED <<held, lost, lock, mine>>

\* util_mutex_unlock; return he.  The caller keeps a non-empty entry.
AllocUnlock(t) ==
    /\ pc[t] = "a_unlock"
    /\ lock' = 0
    /\ IF loc[t].he = EmptyEntry
       THEN UNCHANGED <<held, mine>>
       ELSE /\ held' = held (+) SetToBag({loc[t].he})
            /\ mine' = [mine EXCEPT ![t] = @ (+) SetToBag({loc[t].he})]
    /\ Threaded(t, "idle", NoLocals)
    /\ UNCHANGED <<heap, lost>>

\* vmcache_free is called with an entry the thread was given.
FreeCall(t, he) ==
    /\ HeapAlive
    /\ pc[t] = "idle"
    /\ BagIn(he, mine[t])
    /\ held' = held (-) SetToBag({he})
    /\ mine' = [mine EXCEPT ![t] = @ (-) SetToBag({he})]
    /\ Threaded(t, "f_lock", [size |-> 0, he |-> he])
    /\ UNCHANGED <<heap, lost, lock>>

FreeLock(t) ==
    /\ pc[t] = "f_lock"
    /\ util_mutex_lock(lock)
    /\ lock' = t
    /\ Threaded(t, "f_sub", loc[t])
    /\ UNCHANGED <<heap, held, lost, mine>>

FreeSub(t) ==
    /\ pc[t] = "f_sub"
    /\ heap' = [heap EXCEPT !.size_used = fetch_and_sub(@, loc[t].he.size)]
    /\ Threaded(t, "f_push", loc[t])
    /\ UNCHANGED <<held, lost, lock, mine>>

\* The push of the freed entry; an entry the push did not store is dropped.
FreePush(t, grow) ==
    /\ pc[t] = "f_push"
    /\ heap' = VEC_PUSH_BACK(heap, loc[t].he, grow)
    /\ lost' = IF Len(heap'.entries) = Len(heap.entries)
               THEN lost + loc[t].he.size
               ELSE lost
    /\ Threaded(t, "f_unlock", loc[t])
    /\ UNCHANGED <<held, lock, mine>>

FreeUnlock(t) ==
    /\ pc[t] = "f_unlock"
    /\ lock' = 0
    /\ Threaded(t, "idle", NoLocals)
    /\ UNCHANGED <<heap, held, lost, mine>>

\* The statements of a call that has taken the lock.
Locked(t) ==
    \/ AllocPop(t) \/ \E grow \in BOOLEAN : AllocSplit(t, grow)
    \/ AllocAdd(t) \/ AllocUnlock(t)
    \/ FreeSub(t) \/ \E grow \in BOOLEAN : FreePush(t, grow)
    \/ FreeUnlock(t)

ThreadNext ==
    \/ \E t \in Threads, req \in 1..ThreadHeapSize : AllocCall(t, req)
    \/ \E t \in Threads : AllocLock(t)
    \/ \E t \in Threads : AllocPop(t)
    \/ \E t \in Threads, grow \in BOOLEAN : AllocSplit(t, grow)
    \/ \E t \in Threads : AllocAdd(t)
    \/ \E t \in Threads : AllocUnlock(t)
    \/ \E t \in Threads : \E he \in BagToSet(mine[t]) : FreeCall(t, he)
    \/ \E t \in Threads : FreeLock(t)
    \/ \E t \in Threads : FreeSub(t)
    \/ \E t \in Threads, grow \in BOOLEAN : FreePush(t, grow)
    \/ \E t \in Threads : FreeUnlock(t)
    \/ Destroy

\* The threads share a freshly created heap of ThreadHeapSize bytes.
ThreadInit ==
    /\ InitIndex
    /\ \E grow \in BOOLEAN :
           heap = vmcache_heap_create(HeapBase, ThreadHeapSize, FragmentSize, grow)

ThreadSpec == ThreadInit /\ [][ThreadNext]_vars

\* Fair scheduling: a thread that can run its next statement runs it.  A
\* thread inside the critical section runs on, and a thread that waits for
\* a lock that stays free gets it.  The mutex promises no more: a thread
\* that finds the lock free only now and then, because other threads keep
\* taking it, may wait for ever.
FairThreadSpec ==
    /\ ThreadSpec
    /\ \A t \in Threads : WF_vars(Locked(t))
    /\ \A t \in Threads : WF_vars(AllocLock(t) \/ FreeLock(t))

(***************************************************************************)
(* Properties of the critnib index.                                        *)
(***************************************************************************)
\* The leaves and internal nodes reachable from the root.
TreeLeaves == ReachLeaves(nodes, root)
TreeNodes == ReachNodes(nodes, root)
\* The keys stored in the tree.
StoredKeys == {KeyBytes[leafs[i].key] : i \in TreeLeaves}

\* a is a prefix of b (possibly equal to it).
IsPrefix(a, b) == Len(a) <= Len(b) /\ SubSeq(b, 1, Len(a)) = a
\* k equals a key of the set stored, or is a proper prefix or extension of
\* one.
PrefixRelated(k, stored) == \E s \in stored : IsPrefix(k, s) \/ IsPrefix(s, k)

\* get of key in the tree t.
GetIn(t, key) == critnib_get(t.root, t.nodes, t.leafs, key)
\* The answers of the tree t to the get of every key.
Gets(t) == [k \in Keys |-> GetIn(t, k)]

\* C1: the index behaves like a map.  After every sequence of set and
\* remove calls, get(k) of every key k returns the handle passed to the most
\* recent successful set(k) not followed by a successful remove(k), and
\* misses otherwise (shadow records exactly that), so a set of k1 or a remove
\* of k1 never changes get(k2).
C1_MapRefinement ==
    status = "live" =>
        \A k \in Keys : critnib_get(root, nodes, leafs, k) = shadow[KeyId[k]]

\* Three keys are stored under internal nodes and the last set succeeded.
C1_Witness ==
    /\ status = "live"
    /\ lastOp = [op |-> "set", ret |-> 0]
    /\ (root # NULL /\ ~is_leaf(root))
    /\ Cardinality({k \in KeyIds : shadow[k] # 0}) = 3
    /\ shadow[KeyId[KeyBytes[2]]] = 2

\* C2: for every stored key k, remove(k) returns the handle stored for k;
\* right after it get(k) misses and a second remove(k) misses, and every
\* other key is answered by get as before the removal.
C2_RemoveReturnsAndForgets ==
    status = "live" =>
        \A k \in StoredKeys :
            LET r == critnib_remove(CurTree, k)
            IN  /\ r.ret # 0
                /\ r.ret = GetIn(CurTree, k)
                /\ GetIn(r.tree, k) = 0
                /\ critnib_remove(r.tree, k).ret = 0
                /\ \A k2 \in Keys \ {k} : GetIn(r.tree, k2) = GetIn(CurTree, k2)

\* A remove returned a handle and elided the root node: the surviving leaf
\* was promoted to the root.
C2_Witness ==
    /\ status = "live"
    /\ lastOp.op = "remove"
    /\ lastOp.ret # 0
    /\ is_leaf(root)
    /\ allocNodes = {}

\* C3 as stated: in every reachable tree state, set(k) returns EEXIST
\* whenever k equals a stored key or is a proper prefix or extension of one,
\* leaving the tree and every get unchanged; and set never returns EEXIST
\* for a key with no such relation to a stored key.
C3_ExistsWheneverRelated ==
    status = "live" =>
        LET stored == StoredKeys
            before == Gets(CurTree)
        IN  \A e \in Entries :
            LET related == PrefixRelated(KeyBytes[e.handle], stored)
            IN  \A mem \in MemFates :
                    LET r == critnib_set(CurTree, e, mem)
                    IN  IF related
                        THEN /\ r.returned /\ r.ret = EEXIST
                             /\ r.tree.root = root /\ r.tree.nodes = nodes
                             /\ Gets(r.tree) = before
                        ELSE ~(r.returned /\ r.ret = EEXIST)

\* C3, amended: the same, for the calls of set whose leaf allocation
\* succeeds; when it fails set returns ENOMEM, also for a stored key.
C3_ExistsWhenLeafAllocated ==
    status = "live" =>
        LET stored == StoredKeys
            before == Gets(CurTree)
        IN  \A e \in Entries :
            LET related == PrefixRelated(KeyBytes[e.handle], stored)
            IN  \A mem \in MemFates :
                    LET r == critnib_set(CurTree, e, mem)
                    IN  IF alloc_leaf(CurTree, mem.leafOk) = 0
                        THEN r.returned /\ r.ret = ENOMEM
                        ELSE IF related
                        THEN /\ r.returned /\ r.ret = EEXIST
                             /\ r.tree.root = root /\ r.tree.nodes = nodes
                             /\ Gets(r.tree) = before
                        ELSE ~(r.returned /\ r.ret = EEXIST)

\* A set returned EEXIST on a tree with internal nodes.
C3_Witness ==
    /\ status = "live"
    /\ lastOp = [op |-> "set", ret |-> EEXIST]
    /\ (root # NULL /\ ~is_leaf(root))

\* C4: tree minimality.  After any sequence of set and remove calls every
\* internal node reachable from the root has at least two non-empty child
\* slots, so any_leaf finds a leaf under each of them.
C4_TreeMinimality ==
    status # "deleted" =>
        \A id \in TreeNodes :
            /\ Cardinality(UsedSlots(nodes, id)) >= 2
            /\ any_leaf(nodes, NodePtr(id)) # NULL

\* A remove returned a handle and the tree still has an internal node.
C4_Witness ==
    /\ status = "live"
    /\ lastOp.op = "remove"
    /\ lastOp.ret # 0
    /\ (root # NULL /\ ~is_leaf(root))

\* C5: after critnib_delete no internal node and no leaf of the tree is
\* still allocated.
C5_DeleteFreesTree ==
    status = "deleted" =>
        /\ TreeNodes \cap allocNodes = {}
        /\ TreeLeaves \cap allocLeaves = {}

\* C6: a set in which an allocation fails returns ENOMEM, leaves the tree
\* as it was and leaves no leaf of the call allocated.
C6_NoMemLeavesNothing ==
    [][(status = "live" /\ lastOp'.op = "set"
            /\ (lastOp'.ret = ENOMEM \/ status' = "aborted"))
        => /\ status' = "live"
           /\ lastOp'.ret = ENOMEM
           /\ root' = root
           /\ nodes' = nodes
           /\ allocNodes' = allocNodes
           /\ allocLeaves' = allocLeaves]_vars

\* C7: after any sequence of set and remove calls, whatever they returned,
\* the allocated leaves and nodes are exactly those reachable from the root.
C7_AllocatedIsReachable ==
    status = "live" =>
        /\ allocLeaves = TreeLeaves
        /\ allocNodes = TreeNodes

\* The coordinate (b1, s1) comes strictly before (b2, s2) in tree-depth
\* order: byte offset ascending, and within a byte bit shift descending.
Earlier(b1, s1, b2, s2) == b1 < b2 \/ (b1 = b2 /\ s1 > s2)

\* C15: after any sequence of set and remove calls every internal node
\* that is a child of an internal node has a coordinate strictly later than
\* its parent's, so every root-to-leaf path visits strictly increasing
\* (byte_offset, bit_shift) coordinates and none of them twice.
C15_PathsAscend ==
    status = "live" =>
        \A id \in TreeNodes : \A i \in UsedSlots(nodes, id) :
            LET c == nodes[id].child[i]
            IN  ~is_leaf(c) =>
                    Earlier(nodes[id].byte, nodes[id].bit,
                            nodes[NodeOf(c)].byte, nodes[NodeOf(c)].bit)

\* A path of two internal nodes, after a successful set.
C15_Witness ==
    /\ status = "live"
    /\ lastOp = [op |-> "set", ret |-> 0]
    /\ \E id \in TreeNodes : \E i \in UsedSlots(nodes, id) :
          ~is_leaf(nodes[id].child[i])

\* The nibble (b >> bit) & 15 of the byte b read as char.
Nibble(b, bit) == (ToChar(b) \div (2^bit)) % 16

\* The bits of the byte b above the nibble at shift bit.
BitsAbove(b, bit) == IF bit + SLICE >= 8 THEN 0 ELSE b \div (2^(bit + SLICE))

\* The keys k1 and k2 are longer than byte and agree on every bit before
\* the coordinate (byte, bit).
AgreeBefore(k1, k2, byte, bit) ==
    /\ Len(k1) > byte
    /\ Len(k2) > byte
    /\ SubSeq(k1, 1, byte) = SubSeq(k2, 1, byte)
    /\ BitsAbove(k1[byte + 1], bit) = BitsAbove(k2[byte + 1], bit)

\* Every leaf under the node id is longer than the node's byte offset,
\* agrees with the other leaves under it before the node's coordinate and
\* lies under the child slot of its nibble at that coordinate.
Discriminates(id) ==
    LET byte == nodes[id].byte
        bit == nodes[id].bit
        under == ReachLeaves(nodes, NodePtr(id))
    IN  /\ \A l1, l2 \in under : AgreeBefore(KeyBytes[leafs[l1].key], KeyBytes[leafs[l2].key], byte, bit)
        /\ \A i \in UsedSlots(nodes, id) :
              \A l \in ReachLeaves(nodes, nodes[id].child[i]) :
                  /\ leafs[l].key_len > byte
                  /\ Nibble(KeyBytes[leafs[l].key][byte + 1], bit) = i

\* What set of key computes on the current, non-empty tree before it
\* changes it: the witness leaf, the divergence (found is FALSE when set
\* returns EEXIST) and the place where the second descent stops.
SetWalk(key) ==
    LET n == WitnessLeaf(root, nodes, key)
        nk == KeyBytes[leafs[to_leaf(n)].key]
        common_len == IF Len(nk) < Len(key) THEN Len(nk) ELSE Len(key)
        diff == FirstDiff(nk, key)
        found == diff < common_len
        sh == IF found THEN DivergenceShift(nk[diff + 1], key[diff + 1]) ELSE 0
    IN  [witness |-> n, found |-> found, diff |-> diff, sh |-> sh,
         stop |-> IF found
                  THEN SecondDescent(nodes, root, RootSlot, key, diff, sh)
                  ELSE [n |-> root, parent |-> RootSlot]]

\* C16 as stated: every internal node discriminates the leaves under it,
\* and the witness leaf of every set lies in the subtree on which the second
\* descent of that set stops.
C16_WitnessUnderStop ==
    (status = "live" /\ root # NULL) =>
        /\ \A id \in TreeNodes : Discriminates(id)
        /\ \A key \in Keys :
              LET w == SetWalk(key)
              IN  w.found =>
                      to_leaf(w.witness) \in ReachLeaves(nodes, w.stop.n)

\* C16, amended: every internal node discriminates the leaves under it,
\* and the witness leaf of every set lies in the subtree on which the second
\* descent stops, or, when it stops on an empty slot, in the subtree of the
\* node that has the empty slot.
C16_WitnessUnderStopOrItsNode ==
    (status = "live" /\ root # NULL) =>
        /\ \A id \in TreeNodes : Discriminates(id)
        /\ \A key \in Keys :
              LET w == SetWalk(key)
              IN  w.found =>
                      to_leaf(w.witness) \in
                          ReachLeaves(nodes,
                                      IF w.stop.n = NULL
                                      THEN NodePtr(w.stop.parent.node)
                                      ELSE w.stop.n)

\* A tree with an internal node below the root node, on which the second
\* descent of the set of some key stops on an empty slot.
C16_Witness ==
    /\ status = "live"
    /\ root # NULL
    /\ \E id \in TreeNodes : \E i \in UsedSlots(nodes, id) :
          ~is_leaf(nodes[id].child[i])
    /\ \E key \in Keys : SetWalk(key).found /\ SetWalk(key).stop.n = NULL

\* C17: every internal node created by set has bit_shift 0 or 4, the index
\* of the most significant set bit of the XOR of the two differing bytes
\* rounded down to a multiple of 4, for bytes of all 256 values.
C17_ShiftIsNibble ==
    status = "live" =>
        \A id \in TreeNodes : nodes[id].bit \in {0, SLICE}

RECURSIVE Passed(_, _, _, _)
\* The internal nodes from which the second descent of a set of key moves
\* to a child, starting at n.
Passed(n, key, diff, sh) ==
    IF n # NULL /\ ~is_leaf(n)
       /\ KeepDescending(nodes[NodeOf(n)].byte, nodes[NodeOf(n)].bit, diff, sh)
    THEN {NodeOf(n)}
         \cup Passed(nodes[NodeOf(n)].child[
                         slice_index(key[nodes[NodeOf(n)].byte + 1],
                                     nodes[NodeOf(n)].bit)],
                     key, diff, sh)
    ELSE {}

\* C18 as stated: the second descent of set moves below an internal node
\* only while the node's coordinate is strictly earlier than the divergence
\* coordinate, and an internal node it stops on is not strictly earlier.
C18_DescendsWhileStrictlyEarlier ==
    (status = "live" /\ root # NULL) =>
        \A key \in Keys :
            LET w == SetWalk(key)
            IN  w.found =>
                  /\ \A id \in Passed(root, key, w.diff, w.sh) :
                        Earlier(nodes[id].byte, nodes[id].bit, w.diff, w.sh)
                  /\ (w.stop.n # NULL /\ ~is_leaf(w.stop.n)) =>
                        ~Earlier(nodes[NodeOf(w.stop.n)].byte,
                                 nodes[NodeOf(w.stop.n)].bit, w.diff, w.sh)

\* C18, amended: the second descent moves below an internal node while the
\* node's coordinate is earlier than or equal to the divergence coordinate.
\* An internal node it stops on is strictly later.  It moves below a node of
\* equal coordinate only as its last move, into an empty slot, and it stops
\* on an empty slot in no other case.
C18_DescendsWhileNotLater ==
    (status = "live" /\ root # NULL) =>
        \A key \in Keys :
            LET w == SetWalk(key)
            IN  w.found =>
                  /\ \A id \in Passed(root, key, w.diff, w.sh) :
                        \/ Earlier(nodes[id].byte, nodes[id].bit, w.diff, w.sh)
                        \/ /\ nodes[id].byte = w.diff
                           /\ nodes[id].bit = w.sh
                           /\ w.stop.n = NULL
                           /\ w.stop.parent.node = id
                  /\ (w.stop.n # NULL /\ ~is_leaf(w.stop.n)) =>
                        Earlier(w.diff, w.sh, nodes[NodeOf(w.stop.n)].byte,
                                nodes[NodeOf(w.stop.n)].bit)
                  /\ w.stop.n = NULL =>
                        /\ w.stop.parent # RootSlot
                        /\ nodes[w.stop.parent.node].byte = w.diff
                        /\ nodes[w.stop.parent.node].bit = w.sh

\* A set wrote its leaf into an empty slot of an existing node, which now
\* has three leaves as children.
C18_Witness ==
    /\ status = "live"
    /\ lastOp = [op |-> "set", ret |-> 0]
    /\ \E id \in TreeNodes :
          /\ Cardinality(UsedSlots(nodes, id)) >= 3
          /\ \A i \in UsedSlots(nodes, id) : is_leaf(nodes[id].child[i])

(***************************************************************************)
(* Properties of the fragment heap.                                        *)
(***************************************************************************)
RECURSIVE SeqSizes(_)
\* The sum of the sizes of the entries of a sequence.
SeqSizes(q) == IF q = <<>> THEN 0 ELSE q[1].size + SeqSizes(Tail(q))

RECURSIVE SetSizes(_, _)
\* The sum of the sizes of the entries of the set S, each counted as often
\* as the bag B holds it.
SetSizes(S, B) ==
    IF S = {} THEN 0
    ELSE LET e == CHOOSE x \in S : TRUE
         IN  e.size * CopiesIn(e, B) + SetSizes(S \ {e}, B)

\* The bytes held by callers and the bytes on the free stack.
HeldBytes == SetSizes(BagToSet(held), held)
StackBytes == SeqSizes(heap.entries)

\* req rounded up to a multiple of the fragment size: ceil(req / F) * F.
RoundedRequest(req) ==
    ((req + FragmentSize - 1) \div FragmentSize) * FragmentSize

\* C8: heap conservation.  After every sequence of alloc and free on a
\* fresh heap, the sizes held by callers plus the sizes on the free stack
\* add up to the initial heap size, for as long as the heap exists.
C8_HeapConservation == HeapAlive => HeldBytes + StackBytes = HeapSize

\* C9: heap accounting.  After every completed alloc or free, used_bytes is
\* the sum of the sizes of the entries alloc returned that are not yet
\* freed; it is 0 on a fresh heap and never exceeds the initial heap size.
\* used_bytes is a field of the heap and is read while the heap exists.
C9_HeapAccounting ==
    HeapAlive =>
        /\ vmcache_get_heap_used_size(heap) = HeldBytes
        /\ vmcache_get_heap_used_size(heap) <= HeapSize
        /\ lastAlloc.op = "create" => vmcache_get_heap_used_size(heap) = 0

\* After an alloc that returned a fragment shorter than the rounded request,
\* with something still held.
C9_Witness ==
    /\ lastAlloc.op = "alloc"
    /\ lastAlloc.he # EmptyEntry
    /\ lastAlloc.he.size < RoundedRequest(lastAlloc.req)
    /\ vmcache_get_heap_used_size(heap) > lastAlloc.he.size

\* C10 as stated: every alloc(req) returns the empty entry or an entry of
\* exactly req rounded up to a multiple of the fragment size.
C10_ExactRounding ==
    lastAlloc.op = "alloc" =>
        \/ lastAlloc.he = EmptyEntry
        \/ lastAlloc.he.size = RoundedRequest(lastAlloc.req)

\* C10, amended: alloc(req) returns the empty entry when the free stack is
\* empty; otherwise it returns the start of the entry on top of the stack,
\* of the size of that entry or of the rounded request, whichever is smaller.
C10_RoundingUpToTop ==
    [][lastAlloc'.op = "alloc" =>
          IF heap.entries = <<>>
          THEN lastAlloc'.he = EmptyEntry
          ELSE LET top == heap.entries[Len(heap.entries)]
                   rounded == RoundedRequest(lastAlloc'.req)
               IN  /\ lastAlloc'.he.ptr = top.ptr
                   /\ lastAlloc'.he.size =
                          IF top.size < rounded THEN top.size ELSE rounded]_vars

\* An alloc took a freed fragment shorter than the rounded request from the
\* top of a stack that holds more.
C10_Witness ==
    /\ lastAlloc.op = "alloc"
    /\ lastAlloc.he # EmptyEntry
    /\ lastAlloc.he.size < RoundedRequest(lastAlloc.req)
    /\ heap.entries # <<>>

\* C11: the free list is LIFO.  When free(e) is immediately followed by
\* alloc(req), the entry returned starts at e's pointer; when e is larger
\* than the rounded request the entry returned has the rounded size and the
\* remainder (e.ptr + rounded, e.size - rounded) is the new top of the stack.
C11_FreeThenAllocIsLifo ==
    [][(lastAlloc.op = "free" /\ lastAlloc'.op = "alloc") =>
          LET e == lastAlloc.he
              rounded == RoundedRequest(lastAlloc'.req)
              got == lastAlloc'.he
          IN  /\ got.ptr = e.ptr
              /\ e.size > rounded =>
                    /\ got.size = rounded
                    /\ heap'.entries # <<>>
                    /\ heap'.entries[Len(heap'.entries)] =
                          [ptr |-> e.ptr + rounded, size |-> e.size - rounded]]_vars

\* C12: when the free stack is empty, which is when every byte of the heap
\* is held by callers, alloc returns the empty entry (null pointer, size 0)
\* and leaves the free stack and used_bytes unchanged; the alloc that follows
\* the free of a held, non-empty entry returns a non-empty entry.
C12_EmptyStackAlloc ==
    [][lastAlloc'.op = "alloc" =>
          /\ heap.entries = <<>> =>
                /\ HeldBytes = HeapSize
                /\ lastAlloc'.he = EmptyEntry
                /\ heap'.entries = heap.entries
                /\ vmcache_get_heap_used_size(heap') =
                       vmcache_get_heap_used_size(heap)
          /\ lastAlloc.op = "free" =>
                /\ lastAlloc'.he.ptr # 0
                /\ lastAlloc'.he.size > 0]_vars

(***************************************************************************)
(* Properties of the heap under concurrent calls.                          *)
(***************************************************************************)
\* No heap call is in progress.
Quiescent == \A t \in Threads : pc[t] = "idle"

\* The threads between util_mutex_lock and util_mutex_unlock.
InCritical == {t \in Threads : pc[t] \in CriticalSection}

\* C13: with the threads running alloc/free pairs on one heap under every
\* interleaving, at most one thread is between lock and unlock, and it is the
\* holder of the lock, so the pops and pushes of different calls never
\* interleave; and whenever no call is in progress the sizes held by callers
\* plus the sizes on the free stack add up to the initial heap size, and
\* used_bytes is the sum of the sizes held by callers, until the heap is
\* destroyed.
C13_ExclusionAndQuiescence ==
    /\ Cardinality(InCritical) <= 1
    /\ \A t \in InCritical : lock = t
    /\ (Quiescent /\ HeapAlive) =>
          /\ HeldBytes + StackBytes = ThreadHeapSize
          /\ vmcache_get_heap_used_size(heap) = HeldBytes

\* The size of the entry thread t has taken off the free stack, or was given
\* to free, and has not pushed or returned yet.
InHand(t) ==
    IF pc[t] \in {"a_split", "a_add", "a_unlock", "f_lock", "f_sub", "f_push"}
    THEN loc[t].he.size
    ELSE 0

RECURSIVE SumInHand(_)
SumInHand(T) ==
    IF T = {} THEN 0
    ELSE LET t == CHOOSE x \in T : TRUE IN InHand(t) + SumInHand(T \ {t})

\* The true total: the sizes of the entries removed from the free stack and
\* not yet pushed back, which are the entries callers hold, the entries the
\* calls in progress have in hand and the entries a failed push dropped.
TrueTotal == HeldBytes + SumInHand(Threads) + lost

\* How far the value a reader gets without the lock is from the true total.
ReadError ==
    LET d == vmcache_get_heap_used_size(heap) - TrueTotal
    IN  IF d < 0 THEN 0 - d ELSE d

\* The size of the call of thread t: the rounded request of an alloc, the
\* size of the entry of a free.
OperationSize(t) ==
    IF pc[t] \in {"a_lock", "a_pop", "a_split", "a_add", "a_unlock"}
    THEN loc[t].size
    ELSE loc[t].he.size

\* C14 as stated: a read of used_bytes without the lock differs from the
\* true total by at most the size of the one operation inside the critical
\* section, and is exact when no operation holds the lock (reads are made
\* while the heap exists).
C14_WithinOperationSize ==
    HeapAlive =>
        IF lock = 0
        THEN ReadError = 0
        ELSE ReadError <= OperationSize(lock)

\* C14, amended: the read differs from the true total by at most the size
\* of the entry the operation inside the critical section has in hand, which
\* for an alloc that has popped and not yet split is the whole popped entry,
\* plus the sizes of the entries that failed pushes have dropped; when no
\* operation holds the lock it falls short of the true total by exactly the
\* sizes of the dropped entries, and is exact when none was dropped (reads
\* are made while the heap exists).
C14_WithinEntryInHand ==
    HeapAlive =>
        IF lock = 0
        THEN vmcache_get_heap_used_size(heap) = TrueTotal - lost
        ELSE ReadError <= InHand(lock) + lost

\* An alloc has popped an entry larger than its rounded request and has not
\* split it yet, so the read is off by more than the request, while another
\* thread holds an entry.
C14_Witness ==
    /\ lock \in Threads
    /\ pc[lock] = "a_split"
    /\ loc[lock].he.size > loc[lock].size
    /\ ReadError = loc[lock].he.size
    /\ held # EmptyBag

\* The bytes of an entry.
Bytes(e) == e.ptr .. (e.ptr + e.size - 1)

\* C19: in every heap state reached by the threads, one after the other or
\* interleaved, each freeing only entries it was given, the byte ranges of
\* the entries on the free stack and of the entries held by callers are
\* pairwise disjoint and lie inside the initial range of the heap: no entry
\* is held twice, no byte is held by two callers or both stacked and held.
C19_DisjointRanges ==
    LET stack == heap.entries
        heldSet == BagToSet(held)
        extent == HeapBase .. (HeapBase + ThreadHeapSize - 1)
    IN  /\ \A i, j \in DOMAIN stack :
              i # j => Bytes(stack[i]) \cap Bytes(stack[j]) = {}
        /\ \A e \in heldSet : CopiesIn(e, held) = 1
        /\ \A e, f \in heldSet : e # f => Bytes(e) \cap Bytes(f) = {}
        /\ \A i \in DOMAIN stack : \A e \in heldSet :
              Bytes(stack[i]) \cap Bytes(e) = {}
        /\ \A i \in DOMAIN stack : Bytes(stack[i]) \subseteq extent
        /\ \A e \in heldSet : Bytes(e) \subseteq extent
        /\ \A t \in Threads : \A e \in BagToSet(mine[t]) : BagIn(e, held)

\* Every thread holds an entry and one of them holds two, so more entries
\* are held than there are threads; one of the entries held starts inside
\* the heap, after a split.
C19_Witness ==
    /\ \A t \in Threads : mine[t] # EmptyBag
    /\ \E t \in Threads : BagCardinality(mine[t]) >= 2
    /\ BagCardinality(held) > NThreads
    /\ \E e \in BagToSet(held) : e.ptr > HeapBase

\* C20: every alloc and free releases the lock on every path, the
\* empty-stack path of alloc included: the lock is free whenever no call is
\* in progress on a heap that exists, and under fair scheduling every call a
\* thread makes returns.
C20_EveryCallReturns ==
    /\ []((Quiescent /\ HeapAlive) => lock = 0)
    /\ \A t \in Threads : (pc[t] # "idle") ~> (pc[t] = "idle")

\* The statements at which a call waits for the lock.
Waiting == {"a_lock", "f_lock"}

\* C20, amended: every alloc and free releases the lock on every path, the
\* empty-stack path of alloc included: the lock is free whenever no call is
\* in progress on a heap that exists; under fair scheduling every call that
\* has taken the lock returns, so the lock is free again after every
\* acquisition (no deadlock); and a call that waits for the lock takes it
\* unless other calls keep taking it: a thread does not wait for ever
\* except while other threads acquire the lock again and again.
C20_LockAlwaysReleased ==
    /\ []((Quiescent /\ HeapAlive) => lock = 0)
    /\ \A t \in Threads : (pc[t] \in CriticalSection) ~> (pc[t] = "idle")
    /\ \A t \in Threads : []<>(pc[t] \notin Waiting \/ lock \in Threads \ {t})

\* An alloc found the stack empty and is about to unlock while another
\* thread waits for the lock.
C20_Witness ==
    \E t, u \in Threads :
        /\ pc[t] = "a_unlock"
        /\ loc[t].he = EmptyEntry
        /\ pc[u] \in {"a_lock", "f_lock"}

====
